---------------------------- MODULE Spec2Model ----------------------------
(***************************************************************************)
(* Model of bib_to_obsidian.py: BibTeX entries are turned into Markdown    *)
(* literature notes.  A Python str is a sequence of characters; a          *)
(* character is a one-element TLA+ string (NUL stands for U+0000).  An     *)
(* entry is a function from field names to strings, as bibtexparser        *)
(* yields it.                                                              *)
(***************************************************************************)
EXTENDS Integers, Sequences, FiniteSets, TLC

(***************************************************************************)
(* Characters                                                              *)
(***************************************************************************)
NL == "\n"
TAB == "\t"
SP == " "
NUL == "NUL"

\* the characters matched by \s, str.strip() and str.split()
Whitespace == {SP, TAB, NL}

\* the character class of the regular expression in sanitize_filename
IllegalChars == {"\\", "/", "*", "?", ":", "\"", "<", ">", "|"}

\* the character class of the regular expression in clean_title
BraceChars == {"{", "}"}

\* the character class of the regular expression in format_tags
KeywordSeps == {";", ","}

Lowers == {"a", "b", "c", "d", "e"}
Uppers == {"A", "B", "C", "D", "E"}

ToUpper(c) ==
    CASE c = "a" -> "A" [] c = "b" -> "B" [] c = "c" -> "C"
      [] c = "d" -> "D" [] c = "e" -> "E" [] OTHER -> c

ToLower(c) ==
    CASE c = "A" -> "a" [] c = "B" -> "b" [] c = "C" -> "c"
      [] c = "D" -> "d" [] c = "E" -> "e" [] OTHER -> c

(***************************************************************************)
(* Python string primitives                                                *)
(***************************************************************************)
Min(a, b) == IF a < b THEN a ELSE b

\* re.sub(r'[...]', '', s): delete every character of the class
ReSubDelete(class, s) == SelectSeq(s, LAMBDA c : c \notin class)

\* s[:n]
Prefix(s, n) == SubSeq(s, 1, Min(Len(s), n))

RECURSIVE LStrip(_)
LStrip(s) ==
    IF s # <<>> /\ Head(s) \in Whitespace THEN LStrip(Tail(s)) ELSE s

RECURSIVE RStrip(_)
RStrip(s) ==
    IF s # <<>> /\ s[Len(s)] \in Whitespace
    THEN RStrip(SubSeq(s, 1, Len(s) - 1))
    ELSE s

\* str.strip()
Strip(s) == RStrip(LStrip(s))

\* re.split(r'[...]', s): the pieces between the separators, empty ones kept
RECURSIVE ReSplit(_, _, _)
ReSplit(class, s, cur) ==
    IF s = <<>> THEN <<cur>>
    ELSE IF Head(s) \in class
         THEN <<cur>> \o ReSplit(class, Tail(s), <<>>)
         ELSE ReSplit(class, Tail(s), Append(cur, Head(s)))

\* str.title(): a cased character is upper-cased when the character before
\* it is not cased and lower-cased when it is
RECURSIVE TitleFrom(_, _)
TitleFrom(s, prevCased) ==
    IF s = <<>> THEN <<>>
    ELSE LET c == Head(s) IN
         IF c \in Lowers \cup Uppers
         THEN <<IF prevCased THEN ToLower(c) ELSE ToUpper(c)>>
                  \o TitleFrom(Tail(s), TRUE)
         ELSE <<c>> \o TitleFrom(Tail(s), FALSE)

Title(s) == TitleFrom(s, FALSE)

\* str.split() without argument: the maximal runs of non-whitespace
RECURSIVE SplitWs(_, _)
SplitWs(s, cur) ==
    IF s = <<>> THEN (IF cur = <<>> THEN <<>> ELSE <<cur>>)
    ELSE IF Head(s) \in Whitespace
         THEN (IF cur = <<>> THEN <<>> ELSE <<cur>>) \o SplitWs(Tail(s), <<>>)
         ELSE SplitWs(Tail(s), Append(cur, Head(s)))

\* ''.join(parts)
RECURSIVE Join(_)
Join(parts) ==
    IF parts = <<>> THEN <<>> ELSE Head(parts) \o Join(Tail(parts))

\* str.replace(old, new) for one-character old and new
Replace(s, old, new) == [i \in 1..Len(s) |-> IF s[i] = old THEN new ELSE s[i]]

\* the length of the run of whitespace that starts at the head of s
RECURSIVE WsRunLen(_)
WsRunLen(s) ==
    IF s # <<>> /\ Head(s) \in Whitespace THEN 1 + WsRunLen(Tail(s)) ELSE 0

\* re.sub(r'\s*\n\s*', ' ', s): scanning from the left, a match starts at a
\* position when the whitespace run starting there holds a line break; the
\* greedy \s* on both sides of \n make the match span that whole run
RECURSIVE ReSubNewlineRuns(_)
ReSubNewlineRuns(s) ==
    IF s = <<>> THEN <<>>
    ELSE LET n == WsRunLen(s) IN
         IF n > 0 /\ \E i \in 1..n : s[i] = NL
         THEN <<SP>> \o ReSubNewlineRuns(SubSeq(s, n + 1, Len(s)))
         ELSE <<Head(s)>> \o ReSubNewlineRuns(Tail(s))

StartsWith(s, sep) == Len(s) >= Len(sep) /\ SubSeq(s, 1, Len(sep)) = sep

\* str.split(sep): leftmost non-overlapping occurrences of sep
RECURSIVE SplitOn(_, _, _)
SplitOn(s, sep, cur) ==
    IF s = <<>> THEN <<cur>>
    ELSE IF StartsWith(s, sep)
         THEN <<cur>> \o SplitOn(SubSeq(s, Len(sep) + 1, Len(s)), sep, <<>>)
         ELSE SplitOn(Tail(s), sep, Append(cur, Head(s)))

(***************************************************************************)
(* Helper functions of the program                                         *)
(***************************************************************************)
TruncLen == 150

\* variant: the result is not stripped
sanitize_filename_NoStrip(name) ==
    Prefix(ReSubDelete(IllegalChars, name), TruncLen)

sanitize_filename(name) ==
    LET sanitized == ReSubDelete(IllegalChars, name)
    IN  Strip(Prefix(sanitized, TruncLen))

clean_title(title) == ReSubDelete(BraceChars, title)

\* one iteration of the loop of format_tags
RECURSIVE FormatTagsLoop(_, _)
FormatTagsLoop(kw_list, tags) ==
    IF kw_list = <<>> THEN tags
    ELSE LET kw == Head(kw_list) IN
         IF Strip(kw) = <<>>
         THEN FormatTagsLoop(Tail(kw_list), tags)
         ELSE LET tag == Replace(Join(SplitWs(Title(Strip(kw)), <<>>)), "-", "/")
              IN  FormatTagsLoop(Tail(kw_list), Append(tags, tag))

\* variant: the keywords are split on ';' only
format_tags_SemicolonOnly(keywords_str) ==
    IF keywords_str = <<>> THEN <<>>
    ELSE FormatTagsLoop(ReSplit({";"}, keywords_str, <<>>), <<>>)

format_tags(keywords_str) ==
    IF keywords_str = <<>> THEN <<>>
    ELSE FormatTagsLoop(ReSplit(KeywordSeps, keywords_str, <<>>), <<>>)

AndSep == <<SP, "a", "n", "d", SP>>

\* variant: the names are not stripped
parse_authors_NoStrip(authors_str) ==
    IF authors_str = <<>> THEN <<>>
    ELSE SplitOn(ReSubNewlineRuns(authors_str), AndSep, <<>>)

parse_authors(authors_str) ==
    IF authors_str = <<>> THEN <<>>
    ELSE LET cleaned_str == ReSubNewlineRuns(authors_str)
             parts == SplitOn(cleaned_str, AndSep, <<>>)
         IN  [i \in 1..Len(parts) |-> Strip(parts[i])]

(***************************************************************************)
(* create_literature_note_from_entry: extraction, cleaning and rendering   *)
(***************************************************************************)
\* dict.get(key, default)
Get(entry, key, default) == IF key \in DOMAIN entry THEN entry[key] ELSE default

NoId == <<"n", "o", "_", "i", "d">>
NoTitle == <<"N", "o", SP, "T", "i", "t", "l", "e">>
NoDate == <<"n", ".", "d", ".">>
NoAbstract == <<"N", "o", SP, "a", "b", "s", "t", "r", "a", "c", "t", SP,
                "a", "v", "a", "i", "l", "a", "b", "l", "e", ".">>

\* variant: the date is not split
ResolveYear_WholeDate(entry) ==
    LET explicit == Get(entry, "year", <<>>)
    IN  IF explicit # <<>> THEN explicit ELSE Get(entry, "date", NoDate)

\* entry.get('year', '') or entry.get('date', 'n.d.').split('-')[0]
ResolveYear(entry) ==
    LET explicit == Get(entry, "year", <<>>)
    IN  IF explicit # <<>> THEN explicit
        ELSE SplitOn(Get(entry, "date", NoDate), <<"-">>, <<>>)[1]

\* entry.get('journaltitle', '') or entry.get('journal', '')
ResolveJournal(entry) ==
    LET journaltitle == Get(entry, "journaltitle", <<>>)
    IN  IF journaltitle # <<>> THEN journaltitle
        ELSE Get(entry, "journal", <<>>)

\* ", ".join([f"[[{author}]]" for author in author_list])
RECURSIVE AuthorsBody(_)
AuthorsBody(author_list) ==
    IF author_list = <<>> THEN <<>>
    ELSE <<"[", "[">> \o Head(author_list) \o <<"]", "]">>
           \o (IF Tail(author_list) = <<>> THEN <<>>
               ELSE <<",", SP>> \o AuthorsBody(Tail(author_list)))

\* the abstract after the clean-up step
CleanAbstract(entry) ==
    LET abstract == Get(entry, "abstract", <<>>)
    IN  IF abstract # <<>> THEN Strip(ReSubNewlineRuns(abstract)) ELSE abstract

\* A rendered document is the sequence of the pieces appended to md_content:
\* t is the text of the (f-)string literal, v the value substituted in it.
Piece(t, v) == [t |-> t, v |-> v]
Fixed(t) == Piece(t, <<>>)

ListItems(items) == [i \in 1..Len(items) |-> Piece("  - {}\n", items[i])]

\* variant: the journal line is written like the title line, whatever its value
FrontMatter_JournalAlways(title, author_list, journal, year, doi, url, tags) ==
    <<Fixed("---\n"), Piece("title: \"{}\"\n", title)>>
    \o (IF author_list # <<>>
        THEN <<Fixed("author:\n")>> \o ListItems(author_list) ELSE <<>>)
    \o <<Piece("journal: \"{}\"\n", journal)>>
    \o (IF year # <<>> /\ year # NoDate
        THEN <<Piece("year: {}\n", year)>> ELSE <<>>)
    \o (IF doi # <<>> THEN <<Piece("doi: \"{}\"\n", doi)>> ELSE <<>>)
    \o (IF url # <<>> THEN <<Piece("url: {}\n", url)>> ELSE <<>>)
    \o (IF tags # <<>> THEN <<Fixed("tags:\n")>> \o ListItems(tags) ELSE <<>>)
    \o <<Fixed("---\n\n")>>

FrontMatter(title, author_list, journal, year, doi, url, tags) ==
    <<Fixed("---\n"), Piece("title: \"{}\"\n", title)>>
    \o (IF author_list # <<>>
        THEN <<Fixed("author:\n")>> \o ListItems(author_list) ELSE <<>>)
    \o (IF journal # <<>> THEN <<Piece("journal: \"{}\"\n", journal)>> ELSE <<>>)
    \o (IF year # <<>> /\ year # NoDate
        THEN <<Piece("year: {}\n", year)>> ELSE <<>>)
    \o (IF doi # <<>> THEN <<Piece("doi: \"{}\"\n", doi)>> ELSE <<>>)
    \o (IF url # <<>> THEN <<Piece("url: {}\n", url)>> ELSE <<>>)
    \o (IF tags # <<>> THEN <<Fixed("tags:\n")>> \o ListItems(tags) ELSE <<>>)
    \o <<Fixed("---\n\n")>>

Body(title, authors_body_formatted, journal, year, abstract) ==
    <<Piece("# {}\n\n", title)>>
    \o (IF authors_body_formatted # <<>>
        THEN <<Piece("- **Authors**: {}\n", authors_body_formatted)>> ELSE <<>>)
    \o (IF journal # <<>> THEN <<Piece("- **Journal**: {}\n", journal)>> ELSE <<>>)
    \o (IF year # <<>> /\ year # NoDate
        THEN <<Piece("- **Year**: {}\n", year)>> ELSE <<>>)
    \o <<Fixed("\n## TL;DR\n\n> Add a one-sentence summary here.\n\n"),
         Piece("## Abstract\n{}\n\n",
               IF abstract # <<>> THEN abstract ELSE NoAbstract),
         Fixed("## My Notes\n\n> Add your personal notes and thoughts here.\n\n\n"),
         Fixed("## BibTeX\n[fence]bibtex\n")>>

\* bibtexparser.dumps of a database holding the one entry: the identifier,
\* then every field of the entry, unchanged, in the writer alphabetical order
FieldOrder == <<"abstract", "author", "date", "doi", "journal", "journaltitle",
                "keywords", "title", "url", "year">>

Dumps(entry) ==
    LET fields == SelectSeq(FieldOrder, LAMBDA k : k \in DOMAIN entry)
    IN  <<Piece("@article{{},\n", Get(entry, "ID", <<>>))>>
        \o [i \in 1..Len(fields) |-> Piece(fields[i], entry[fields[i]])]
        \o <<Fixed("}\n\n\n[fence]\n")>>

FileNameOf(sanitized_title, bib_key) ==
    sanitized_title \o <<SP, "(">> \o bib_key \o <<")", ".", "m", "d">>

\* os.path.join(output_dir, file_name)
PathJoin(dir, name) ==
    IF name # <<>> /\ Head(name) = "/" THEN name
    ELSE IF dir = <<>> \/ dir[Len(dir)] = "/" THEN dir \o name
    ELSE dir \o <<"/">> \o name

\* the locals of create_literature_note_from_entry just before the file is
\* opened
NoteOf(entry, output_dir) ==
    LET bib_key == Get(entry, "ID", NoId)
        title == clean_title(Get(entry, "title", NoTitle))
        journal == ResolveJournal(entry)
        doi == Get(entry, "doi", <<>>)
        url == Get(entry, "url", <<>>)
        year == ResolveYear(entry)
        tags == format_tags(Get(entry, "keywords", <<>>))
        author_list == parse_authors(Get(entry, "author", <<>>))
        authors_body_formatted == AuthorsBody(author_list)
        abstract == CleanAbstract(entry)
        sanitized_title == sanitize_filename(title)
        file_name == FileNameOf(sanitized_title, bib_key)
    IN  [bib_key |-> bib_key, title |-> title, journal |-> journal,
         doi |-> doi, url |-> url, year |-> year, tags |-> tags,
         author_list |-> author_list, abstract |-> abstract,
         md_content |-> FrontMatter(title, author_list, journal, year,
                                    doi, url, tags)
                        \o Body(title, authors_body_formatted, journal, year,
                                abstract)
                        \o Dumps(entry),
         sanitized_title |-> sanitized_title,
         file_name |-> file_name,
         output_path |-> PathJoin(output_dir, file_name)]

(***************************************************************************)
(* Inputs: the .bib files named on the command line                        *)
(***************************************************************************)
MaxFiles == 2
MaxRecords == 2
MaxAffix == 1
MaxKwLen == 3
MaxAuthorTokens == 4
MaxAbsLen == 4

Str(alphabet, n) == UNION {[1..k -> alphabet] : k \in 0..n}

NoFields == [k \in {} |-> <<>>]

\* a field that is absent, or present with one of the values
Opt(key, values) == {NoFields} \cup {key :> v : v \in values}

Key1 == <<"k">>
Key2 == <<"a", ":", "b", "/", "c">>
Y2020 == <<"2", "0", "2", "0">>
D2021 == <<"2", "0", "2", "1", "-", "0", "5", "-", "0", "1">>

Fill(n) == [i \in 1..n |-> "a"]

\* entries in which fields are absent, empty or set
PresenceEntries ==
    {("ID" :> Key1) @@ t @@ a @@ jt @@ j @@ y @@ d @@ doi @@ url @@ kw :
        t \in Opt("title", {<<>>, <<"T">>}),
        a \in Opt("author", {<<"A">>}),
        jt \in Opt("journaltitle", {<<"J">>}),
        j \in Opt("journal", {<<"K">>}),
        y \in Opt("year", {Y2020}),
        d \in Opt("date", {D2021}),
        doi \in Opt("doi", {<<"1", "0", ".", "1", "/", "x">>}),
        url \in Opt("url", {<<"h", ":", "/", "/", "x">>}),
        kw \in Opt("keywords", {<<";">>, <<"a", "-", "b">>})}

JournalEntries ==
    {("ID" :> Key1) @@ jt @@ j :
        jt \in Opt("journaltitle", {<<>>, <<"J">>}),
        j \in Opt("journal", {<<>>, <<"K">>})}

YearEntries ==
    {("ID" :> Key1) @@ y @@ d :
        y \in Opt("year", {<<>>, Y2020, NoDate, <<"2", "0", "-", "1">>}),
        d \in Opt("date", {<<>>, D2021, NoDate, <<"-">>, <<"2", "1">>})}

\* titles around the truncation length, with characters that are deleted or
\* stripped at either end
TitleAffixChars == {"a", SP, ":", "{"}
TitleInputs ==
    {pre \o Fill(n) \o post :
        pre \in Str(TitleAffixChars, MaxAffix),
        post \in Str(TitleAffixChars, MaxAffix),
        n \in {0} \cup ((TruncLen - 2)..(TruncLen + 1))}
TitleEntries ==
    {("ID" :> Key1) @@ ("title" :> t) : t \in TitleInputs}
        \cup {("ID" :> Key2) @@ ("title" :> t) : t \in Str(TitleAffixChars, MaxAffix)}

KeywordExample == <<"a", "-", "b", ";", SP, "c", ",", "d", "-", "e">>
KeywordInputs ==
    Str({"a", "B", SP, ";", ",", "-"}, MaxKwLen) \cup {KeywordExample}
KeywordEntries == {("ID" :> Key1) @@ ("keywords" :> k) : k \in KeywordInputs}

AuthorExample ==
    <<"J", "a", "n", "e", SP, "D", "o", "e">> \o AndSep
        \o <<"J", "o", "h", "n", SP, "Q", ".", SP, "S", "m", "i", "t", "h">>
AuthorTokens == {<<"a">>, <<SP>>, <<NL>>, AndSep, <<"a", "n", "d">>}
AuthorInputs ==
    {Join(ts) : ts \in Str(AuthorTokens, MaxAuthorTokens)} \cup {AuthorExample}
AuthorEntries == {("ID" :> Key1) @@ ("author" :> a) : a \in AuthorInputs}

AbstractInputs == Str({"a", SP, NL, TAB}, MaxAbsLen)
AbstractEntries == {("ID" :> Key1) @@ ("abstract" :> a) : a \in AbstractInputs}

SingleEntries ==
    PresenceEntries \cup JournalEntries \cup YearEntries \cup TitleEntries
        \cup KeywordEntries
        \cup AuthorEntries \cup AbstractEntries

\* entries of the batches: two with different documents that map to the same
\* file name, one whose file name holds a NUL character
BatchEntries ==
    {("ID" :> Key1) @@ ("title" :> <<"a">>),
     ("ID" :> Key1) @@ ("title" :> <<"a", ":">>) @@ ("year" :> Y2020),
     ("ID" :> Key1) @@ ("title" :> <<"b", NUL>>)}

\* what a path of the command line leads to: no file, a file that
\* bibtexparser.load fails on, or a file with the entries it parses to
BibFile(exists, parses, entries) ==
    [exists |-> exists, parses |-> parses, entries |-> entries]
MissingFile == BibFile(FALSE, FALSE, <<>>)
UnparseableFile == BibFile(TRUE, FALSE, <<>>)

BatchFiles ==
    {MissingFile, UnparseableFile}
        \cup {BibFile(TRUE, TRUE, es) : es \in Str(BatchEntries, MaxRecords)}

RECURSIVE TotalRecords(_)
TotalRecords(files) ==
    IF files = <<>> THEN 0
    ELSE Len(Head(files).entries) + TotalRecords(Tail(files))

\* command lines of up to MaxFiles paths that lead to MaxRecords entries at most
Batches ==
    {b \in Str(BatchFiles, MaxFiles) \ {<<>>} : TotalRecords(b) <= MaxRecords}

\* command lines of one file with one entry
SingleBatches == {<<BibFile(TRUE, TRUE, <<e>>)>> : e \in SingleEntries}

(***************************************************************************)
(* State                                                                   *)
(***************************************************************************)
VARIABLES
    bibfiles,    \* args.bibfiles: what each path of the command line leads to
    dir_exists,  \* os.path.exists(args.output_dir)
    pc,          \* "main", "loop" (between files), "entries" (in the loop
                 \* over the entries of a file), "done"
    file_i,      \* position of the loop of main in bibfiles
    entry_i,     \* position of the loop of process_bib_file in the entries
    outfs,       \* the files of the output directory: path -> content
    console,     \* what has been printed, on either stream, in order
    note,        \* <<locals>> of the last call of
                 \* create_literature_note_from_entry, <<>> before the first
    calls,       \* history: <<file, entry>> of every call of that function
    writes       \* history: every open(output_path, 'w') and its outcome

vars == <<bibfiles, dir_exists, pc, file_i, entry_i, outfs, console, note,
          calls, writes>>

\* args.output_dir, at its default
OutputDir == <<".">>

Msg(stream, msg, file, path) ==
    [stream |-> stream, msg |-> msg, file |-> file, path |-> path]

\* what the file system holds after a write: the whole document, or what
\* was written of it before an I/O error
Content(md_content, complete) == [md |-> md_content, complete |-> complete]

NoFiles == [p \in {} |-> Content(<<>>, TRUE)]

Init ==
    /\ bibfiles \in Batches \cup SingleBatches
    /\ dir_exists \in IF bibfiles \in Batches /\ Len(bibfiles) = 1
                      THEN BOOLEAN ELSE {TRUE}
    /\ pc = "main"
    /\ file_i = 0
    /\ entry_i = 0
    /\ outfs = NoFiles
    /\ console = <<>>
    /\ note = <<>>
    /\ calls = <<>>
    /\ writes = <<>>

(***************************************************************************)
(* main                                                                    *)
(***************************************************************************)
\* parse the arguments, create the output directory when it is missing
MainStart ==
    /\ pc = "main"
    /\ dir_exists' = TRUE
    /\ console' = IF dir_exists THEN console
                  ELSE Append(console, Msg("stdout", "Output directory created",
                                           0, OutputDir))
    /\ pc' = "loop"
    /\ file_i' = 1
    /\ UNCHANGED <<bibfiles, entry_i, outfs, note, calls, writes>>

\* the loop over args.bibfiles is exhausted
MainComplete ==
    /\ pc = "loop"
    /\ file_i > Len(bibfiles)
    /\ console' = Append(console, Msg("stdout", "Processing complete", 0, <<>>))
    /\ pc' = "done"
    /\ UNCHANGED <<bibfiles, dir_exists, file_i, entry_i, outfs, note, calls,
                   writes>>

(***************************************************************************)
(* process_bib_file                                                        *)
(***************************************************************************)
Processing == Msg("stdout", "Processing file", file_i, <<>>)

FileNotFound ==
    /\ pc = "loop"
    /\ file_i <= Len(bibfiles)
    /\ ~bibfiles[file_i].exists
    /\ console' = Append(console, Msg("stderr", "File not found", file_i, <<>>))
    /\ file_i' = file_i + 1
    /\ UNCHANGED <<bibfiles, dir_exists, pc, entry_i, outfs, note, calls,
                   writes>>

\* open or bibtexparser.load raises: caught by the handler of the function
FileParseError ==
    /\ pc = "loop"
    /\ file_i <= Len(bibfiles)
    /\ bibfiles[file_i].exists
    /\ ~bibfiles[file_i].parses
    /\ console' = console \o <<Processing,
                                Msg("stderr", "An error occurred while processing",
                                    file_i, <<>>)>>
    /\ file_i' = file_i + 1
    /\ UNCHANGED <<bibfiles, dir_exists, pc, entry_i, outfs, note, calls,
                   writes>>

FileEmpty ==
    /\ pc = "loop"
    /\ file_i <= Len(bibfiles)
    /\ bibfiles[file_i].exists
    /\ bibfiles[file_i].parses
    /\ bibfiles[file_i].entries = <<>>
    /\ console' = console \o <<Processing,
                                Msg("stdout", "No BibTeX entries found",
                                    file_i, <<>>)>>
    /\ file_i' = file_i + 1
    /\ UNCHANGED <<bibfiles, dir_exists, pc, entry_i, outfs, note, calls,
                   writes>>

\* the file parses to at least one entry: enter the loop over the entries
FileLoaded ==
    /\ pc = "loop"
    /\ file_i <= Len(bibfiles)
    /\ bibfiles[file_i].exists
    /\ bibfiles[file_i].parses
    /\ bibfiles[file_i].entries # <<>>
    /\ console' = Append(console, Processing)
    /\ pc' = "entries"
    /\ entry_i' = 1
    /\ UNCHANGED <<bibfiles, dir_exists, file_i, outfs, note, calls, writes>>

\* the loop over the entries is exhausted: the function returns
FileDone ==
    /\ pc = "entries"
    /\ entry_i > Len(bibfiles[file_i].entries)
    /\ pc' = "loop"
    /\ file_i' = file_i + 1
    /\ UNCHANGED <<bibfiles, dir_exists, entry_i, outfs, console, note, calls,
                   writes>>

(***************************************************************************)
(* create_literature_note_from_entry, called from the loop over entries    *)
(***************************************************************************)
CurrentEntry == bibfiles[file_i].entries[entry_i]
CurrentNote == NoteOf(CurrentEntry, OutputDir)

InEntryLoop ==
    /\ pc = "entries"
    /\ entry_i <= Len(bibfiles[file_i].entries)

\* open() raises ValueError, not IOError, for a path with a NUL character
OpenRaisesValueError(output_path) == \E i \in 1..Len(output_path) : output_path[i] = NUL

Write(output_path, outcome) ==
    [file |-> file_i, entry |-> entry_i, path |-> output_path,
     outcome |-> outcome]

\* variant: a file that is already there is kept
WriteFile_KeepsExisting(fs, output_path, content) ==
    fs @@ (output_path :> content)

\* with open(output_path, 'w') as f: f.write(...): the file is created, or
\* the one of that name replaced
WriteFile(fs, output_path, content) == (output_path :> content) @@ fs

\* the document is written and the success message printed
NoteWritten ==
    /\ InEntryLoop
    /\ LET n == CurrentNote IN
        /\ ~OpenRaisesValueError(n.output_path)
        /\ note' = <<n>>
        /\ outfs' = WriteFile(outfs, n.output_path, Content(n.md_content, TRUE))
        /\ console' = Append(console, Msg("stdout", "created successfully",
                                          file_i, n.output_path))
        /\ writes' = Append(writes, Write(n.output_path, "written"))
    /\ calls' = Append(calls, <<file_i, entry_i>>)
    /\ entry_i' = entry_i + 1
    /\ UNCHANGED <<bibfiles, dir_exists, pc, file_i>>

\* open fails with an IOError: nothing is written
NoteOpenError ==
    /\ InEntryLoop
    /\ LET n == CurrentNote IN
        /\ ~OpenRaisesValueError(n.output_path)
        /\ note' = <<n>>
        /\ console' = Append(console, Msg("stderr", "Error writing to file",
                                          file_i, n.output_path))
        /\ writes' = Append(writes, Write(n.output_path, "open failed"))
    /\ calls' = Append(calls, <<file_i, entry_i>>)
    /\ entry_i' = entry_i + 1
    /\ UNCHANGED <<bibfiles, dir_exists, pc, file_i, outfs>>

\* open has truncated the file and f.write (or the close) fails with an
\* IOError: the file is left with part of the document
NoteWriteError ==
    /\ InEntryLoop
    /\ LET n == CurrentNote IN
        /\ ~OpenRaisesValueError(n.output_path)
        /\ note' = <<n>>
        /\ outfs' = WriteFile(outfs, n.output_path, Content(n.md_content, FALSE))
        /\ console' = Append(console, Msg("stderr", "Error writing to file",
                                          file_i, n.output_path))
        /\ writes' = Append(writes, Write(n.output_path, "write failed"))
    /\ calls' = Append(calls, <<file_i, entry_i>>)
    /\ entry_i' = entry_i + 1
    /\ UNCHANGED <<bibfiles, dir_exists, pc, file_i>>

\* an exception that is not an IOError leaves the function, and the loop over
\* the entries, and is caught by the handler of process_bib_file
NoteRaises ==
    /\ InEntryLoop
    /\ LET n == CurrentNote IN
        /\ OpenRaisesValueError(n.output_path)
        /\ note' = <<n>>
    /\ console' = Append(console, Msg("stderr", "An error occurred while processing",
                                      file_i, <<>>))
    /\ calls' = Append(calls, <<file_i, entry_i>>)
    /\ pc' = "loop"
    /\ file_i' = file_i + 1
    /\ UNCHANGED <<bibfiles, dir_exists, entry_i, outfs, writes>>

Next ==
    \/ MainStart
    \/ FileNotFound
    \/ FileParseError
    \/ FileEmpty
    \/ FileLoaded
    \/ NoteWritten
    \/ NoteOpenError
    \/ NoteWriteError
    \/ NoteRaises
    \/ FileDone
    \/ MainComplete

Spec == Init /\ [][Next]_vars

(***************************************************************************)
(* Vocabulary of the properties                                            *)
(***************************************************************************)
Done == pc = "done"

Files == 1..Len(bibfiles)
Parsed(f) == bibfiles[f].exists /\ bibfiles[f].parses
Records(f) == 1..Len(bibfiles[f].entries)

\* create_literature_note_from_entry was called for record e of file f
Reached(f, e) == \E k \in 1..Len(calls) : calls[k] = <<f, e>>

\* open was called for record e of file f and had the outcome
WriteOutcome(f, e, outcome) ==
    \E k \in 1..Len(writes) :
        /\ writes[k].file = f
        /\ writes[k].entry = e
        /\ writes[k].outcome = outcome

\* the processing of record e of file f failed: its write failed, or the call
\* ended before the write
Failed(f, e) == Reached(f, e) /\ ~WriteOutcome(f, e, "written")

\* the entry and the locals of the last call
Noted == note # <<>>
LastEntry ==
    LET c == calls[Len(calls)] IN bibfiles[c[1]].entries[c[2]]
LastNote == note[1]

HasChar(s, class) == \E i \in 1..Len(s) : s[i] \in class

\* the files attempted so far, in order: each attempt prints one of the two
\* messages
Attempts ==
    LET started == SelectSeq(console,
                       LAMBDA m : m.msg \in {"File not found", "Processing file"})
    IN  [k \in 1..Len(started) |-> started[k].file]

(***************************************************************************)
(* C1: a failure in one record does not halt the others: when the          *)
(* processing of a record of a parsed file fails at any stage, every later *)
(* record of that file is still processed.                                 *)
(***************************************************************************)
C1_FailureDoesNotHaltLaterRecords ==
    Done =>
        \A f \in Files : Parsed(f) =>
            \A e1 \in Records(f), e2 \in Records(f) :
                (e1 < e2 /\ Failed(f, e1)) => Reached(f, e2)

(***************************************************************************)
(* C2: every file is attempted exactly once, in the order given; a file    *)
(* that is missing or fails to parse is reported and skipped, all entries  *)
(* of the other files are still processed, and the run completes.          *)
(***************************************************************************)
Reported(f) ==
    \E k \in 1..Len(console) :
        /\ console[k].stream = "stderr"
        /\ console[k].file = f
        /\ console[k].msg \in {"File not found",
                               "An error occurred while processing"}

C2_EveryFileAttemptedOthersProcessed ==
    Done =>
        /\ Attempts = [k \in Files |-> k]
        /\ \A f \in Files : ~Parsed(f) =>
              /\ Reported(f)
              /\ \A g \in Files \ {f} : Parsed(g) =>
                    \A e \in Records(g) : Reached(g, e)

(***************************************************************************)
(* C3: none of the characters \ / * ? : " < > | occurs in the name of a    *)
(* file written for a record, sanitize(title) + " (" + identifier + ").md".*)
(***************************************************************************)
C3_FileNameHasNoIllegalChar ==
    Noted => ~HasChar(LastNote.file_name, IllegalChars)

(***************************************************************************)
(* C9: the abstract placed in the abstract section holds no line break and *)
(* no two consecutive whitespace characters; when the abstract is absent   *)
(* or empty the section holds "No abstract available." instead.            *)
(***************************************************************************)
AbstractSection(md_content) ==
    LET sections == SelectSeq(md_content, LAMBDA p : p.t = "## Abstract\n{}\n\n")
    IN  sections[1].v

C9_AbstractWhitespaceCollapsed ==
    Noted =>
        LET given == Get(LastEntry, "abstract", <<>>)
            shown == AbstractSection(LastNote.md_content)
        IN  IF given = <<>> THEN shown = NoAbstract
            ELSE /\ ~HasChar(shown, {NL})
                 /\ \A i \in 1..(Len(shown) - 1) :
                        ~(shown[i] \in Whitespace /\ shown[i + 1] \in Whitespace)

(***************************************************************************)
(* C4 as claimed: the sanitized portion of the file name is the cleaned    *)
(* title without its illegal characters, all other characters kept in      *)
(* order; for a title of more than 150 characters it is cut to exactly 150 *)
(* characters, for a shorter title it is not shortened.                    *)
(***************************************************************************)
\* the characters of s that are not illegal, in their order
LegalPart(s) == SelectSeq(s, LAMBDA c : ~(c \in IllegalChars))

C4_SanitizedKeepsAllAndCutsTo150 ==
    Noted =>
        LET kept == LegalPart(LastNote.title)
            got == LastNote.sanitized_title
        IN  IF Len(LastNote.title) > TruncLen
            THEN Len(got) = TruncLen /\ got = SubSeq(kept, 1, TruncLen)
            ELSE got = kept

(***************************************************************************)
(* C4 amended: the sanitized portion is the cleaned title without its      *)
(* illegal characters, cut to its first 150 characters and then without    *)
(* the whitespace at either end; it has at most 150 characters, and        *)
(* exactly 150 when more than 150 characters are left after the removal    *)
(* and neither the first nor the 150th of them is whitespace.              *)
(***************************************************************************)
C4_SanitizedIsStrippedCutOfLegalPart ==
    Noted =>
        LET kept == LegalPart(LastNote.title)
            cut == SubSeq(kept, 1, Min(Len(kept), TruncLen))
            got == LastNote.sanitized_title
            n == Len(cut)
        IN  /\ Len(got) <= TruncLen
            /\ got # <<>> => got[1] \notin Whitespace /\ got[Len(got)] \notin Whitespace
            /\ \E a \in 0..n :
                  /\ \A i \in 1..a : cut[i] \in Whitespace
                  /\ \E b \in 0..(n - a) :
                        /\ \A i \in (n - b + 1)..n : cut[i] \in Whitespace
                        /\ got = SubSeq(cut, a + 1, n - b)
            /\ (Len(kept) > TruncLen /\ cut[1] \notin Whitespace
                    /\ cut[TruncLen] \notin Whitespace) => Len(got) = TruncLen

\* a title of more than 150 characters with an illegal character has been
\* sanitized to 150 characters
C4_Witness ==
    /\ Noted
    /\ Len(LastNote.title) > TruncLen
    /\ HasChar(LastNote.title, IllegalChars)
    /\ Len(LastNote.sanitized_title) = TruncLen

(***************************************************************************)
(* Front-matter, for C5 and C6                                             *)
(***************************************************************************)
\* the pieces between the opening and the closing marker line
FrontMatterOf(md_content) ==
    LET close == CHOOSE k \in 1..Len(md_content) :
                    /\ md_content[k].t = "---\n\n"
                    /\ \A j \in 1..(k - 1) : md_content[j].t # "---\n\n"
    IN  SubSeq(md_content, 2, close - 1)

LineKey(piece) ==
    CASE piece.t = "title: \"{}\"\n" -> "title"
      [] piece.t = "author:\n" -> "author"
      [] piece.t = "journal: \"{}\"\n" -> "journal"
      [] piece.t = "year: {}\n" -> "year"
      [] piece.t = "doi: \"{}\"\n" -> "doi"
      [] piece.t = "url: {}\n" -> "url"
      [] piece.t = "tags:\n" -> "tags"
      [] piece.t = "  - {}\n" -> "item"
      [] OTHER -> "other"

\* the front-matter as <<key, value>> lines
FrontLines(md_content) ==
    LET fm == FrontMatterOf(md_content)
    IN  [i \in 1..Len(fm) |-> <<LineKey(fm[i]), fm[i].v>>]

FieldOrder7 == <<"title", "author", "journal", "year", "doi", "url", "tags">>

ScalarValue(n, key) ==
    CASE key = "title" -> n.title
      [] key = "journal" -> n.journal
      [] key = "year" -> n.year
      [] key = "doi" -> n.doi
      [] key = "url" -> n.url

ItemLines(items) == [i \in 1..Len(items) |-> <<"item", items[i]>>]

\* the lines of one field, when it is rendered
FieldLines(n, key) ==
    CASE key = "author" -> <<<<"author", <<>>>>>> \o ItemLines(n.author_list)
      [] key = "tags" -> <<<<"tags", <<>>>>>> \o ItemLines(n.tags)
      [] OTHER -> <<<<key, ScalarValue(n, key)>>>>

NonEmptyField(n, key) ==
    CASE key = "author" -> n.author_list # <<>>
      [] key = "tags" -> n.tags # <<>>
      [] key = "year" -> n.year # <<>> /\ n.year # NoDate
      [] OTHER -> ScalarValue(n, key) # <<>>

\* the lines of the fields of the set shown, in the order of the claim
LinesOf(n, shown) ==
    Join([i \in 1..Len(FieldOrder7) |->
            IF FieldOrder7[i] \in shown THEN FieldLines(n, FieldOrder7[i])
            ELSE <<>>])

NonEmptyFields(n) == {k \in {"title", "author", "journal", "year", "doi", "url", "tags"} :
                        NonEmptyField(n, k)}

HasLine(md_content, key) ==
    \E i \in 1..Len(FrontLines(md_content)) : FrontLines(md_content)[i][1] = key

\* a record without the fields that feed a line has no such line
AbsentFieldsHaveNoLine ==
    LET e == LastEntry
        md == LastNote.md_content
    IN  /\ "author" \notin DOMAIN e => ~HasLine(md, "author")
        /\ {"journaltitle", "journal"} \cap DOMAIN e = {} => ~HasLine(md, "journal")
        /\ {"year", "date"} \cap DOMAIN e = {} => ~HasLine(md, "year")
        /\ "doi" \notin DOMAIN e => ~HasLine(md, "doi")
        /\ "url" \notin DOMAIN e => ~HasLine(md, "url")
        /\ "keywords" \notin DOMAIN e => ~HasLine(md, "tags")

(***************************************************************************)
(* C5 as claimed: the front-matter holds, in the order title, author list, *)
(* journal, year, doi, url, tag list, the line (or list) of a field if and *)
(* only if its value is non-empty and not the sentinel; a record with an   *)
(* empty title gets no title line.                                         *)
(***************************************************************************)
C5_EveryLineOnlyIfNonEmpty ==
    Noted =>
        /\ FrontLines(LastNote.md_content)
             = LinesOf(LastNote, NonEmptyFields(LastNote))
        /\ AbsentFieldsHaveNoLine

(***************************************************************************)
(* C5 amended: the front-matter always starts with the title line, also    *)
(* for an empty title; after it come, in the order author list, journal,   *)
(* year, doi, url, tag list, the line (or list) of a field if and only if  *)
(* its value is non-empty and not the sentinel.                            *)
(***************************************************************************)
C5_TitleAlwaysOthersOnlyIfNonEmpty ==
    Noted =>
        /\ FrontLines(LastNote.md_content)
             = LinesOf(LastNote, {"title"} \cup NonEmptyFields(LastNote))
        /\ AbsentFieldsHaveNoLine

\* a note with an empty title, without authors and doi, with url and tags
C5_Witness ==
    /\ Noted
    /\ LastNote.title = <<>>
    /\ LastNote.author_list = <<>>
    /\ LastNote.doi = <<>>
    /\ LastNote.url # <<>>
    /\ LastNote.tags # <<>>
    /\ HasLine(LastNote.md_content, "title")
    /\ HasLine(LastNote.md_content, "tags")

(***************************************************************************)
(* C6 as claimed: the resolved year is the year field when present;        *)
(* otherwise the part of the date field before the first '-'; with neither *)
(* field it is "n.d.", and then neither the front-matter nor the metadata  *)
(* summary has a year line.                                                *)
(***************************************************************************)
\* y is the part of d before its first '-' (all of d when it has none)
BeforeFirstDash(d, y) ==
    \E k \in 0..Len(d) :
        /\ y = SubSeq(d, 1, k)
        /\ ~HasChar(y, {"-"})
        /\ k = Len(d) \/ d[k + 1] = "-"

NoYearLine(md_content) ==
    \A i \in 1..Len(md_content) :
        md_content[i].t \notin {"year: {}\n", "- **Year**: {}\n"}

C6_YearFieldWhenPresent ==
    Noted =>
        LET e == LastEntry
            y == LastNote.year
        IN  IF "year" \in DOMAIN e THEN y = e["year"]
            ELSE IF "date" \in DOMAIN e THEN BeforeFirstDash(e["date"], y)
            ELSE y = NoDate /\ NoYearLine(LastNote.md_content)

(***************************************************************************)
(* C6 amended: the resolved year is the year field when present and not    *)
(* empty; otherwise the part of the date field before the first '-' when a *)
(* date field is present; otherwise it is "n.d.", and then neither the     *)
(* front-matter nor the metadata summary has a year line.                  *)
(***************************************************************************)
C6_YearFieldWhenNonEmpty ==
    Noted =>
        LET e == LastEntry
            y == LastNote.year
        IN  IF "year" \in DOMAIN e /\ e["year"] # <<>> THEN y = e["year"]
            ELSE IF "date" \in DOMAIN e THEN BeforeFirstDash(e["date"], y)
            ELSE y = NoDate /\ NoYearLine(LastNote.md_content)

\* a record without year and with date 2021-05-01 has resolved year 2021
C6_Witness ==
    /\ Noted
    /\ "year" \notin DOMAIN LastEntry
    /\ Get(LastEntry, "date", <<>>) = D2021
    /\ LastNote.year = <<"2", "0", "2", "1">>
    /\ ~NoYearLine(LastNote.md_content)

(***************************************************************************)
(* C7: the tag list is the keyword string split on ';' or ',', without the *)
(* empty or whitespace-only segments, each remaining segment title-cased,  *)
(* its whitespace removed and every '-' replaced by '/'; the tags keep the *)
(* order of the keywords, none holds whitespace or '-', there are as many  *)
(* tags as non-blank segments, an empty keyword field gives no tag, and    *)
(* "a-b; c,d-e" gives A/B, C, D/E.                                         *)
(***************************************************************************)
RECURSIVE Ascending(_)
Ascending(S) ==
    IF S = {} THEN <<>>
    ELSE LET m == CHOOSE x \in S : \A y \in S : x <= y
         IN  <<m>> \o Ascending(S \ {m})

\* the segments of s between the positions of the separators
Segments(s, seps) ==
    LET cuts == <<0>> \o Ascending({i \in 1..Len(s) : s[i] \in seps})
                     \o <<Len(s) + 1>>
    IN  [k \in 1..(Len(cuts) - 1) |-> SubSeq(s, cuts[k] + 1, cuts[k + 1] - 1)]

Blank(seg) == \A i \in 1..Len(seg) : seg[i] \in Whitespace

\* a segment title-cased, without its whitespace, '-' replaced by '/'
TagOf(seg) ==
    LET packed == SelectSeq(Title(seg), LAMBDA c : ~(c \in Whitespace))
    IN  [i \in 1..Len(packed) |-> IF packed[i] = "-" THEN "/" ELSE packed[i]]

ExampleTags == <<<<"A", "/", "B">>, <<"C">>, <<"D", "/", "E">>>>

C7_TagsAreNormalizedSegments ==
    Noted =>
        LET keywords == Get(LastEntry, "keywords", <<>>)
            kept == SelectSeq(Segments(keywords, KeywordSeps), LAMBDA g : ~Blank(g))
            tags == LastNote.tags
        IN  /\ tags = [i \in 1..Len(kept) |-> TagOf(kept[i])]
            /\ Len(tags) = Len(kept)
            /\ \A i \in 1..Len(tags) : ~HasChar(tags[i], Whitespace \cup {"-"})
            /\ keywords = <<>> => tags = <<>>
            /\ keywords = KeywordExample => tags = ExampleTags

\* the keywords "a-b; c,d-e" have been turned into three tags
C7_Witness ==
    /\ Noted
    /\ Get(LastEntry, "keywords", <<>>) = KeywordExample
    /\ Len(LastNote.tags) = 3

(***************************************************************************)
(* C8: an empty author field gives no author; otherwise the authors are    *)
(* the author string with every whitespace run that holds a line break     *)
(* collapsed to one space, split on " and ", each name trimmed, in source  *)
(* order; no name holds a line break or whitespace at either end, and      *)
(* "Jane Doe and John Q. Smith" gives Jane Doe, John Q. Smith.             *)
(***************************************************************************)
\* position i of s lies in a whitespace run that holds a line break
InBreakRun(s, i) ==
    /\ s[i] \in Whitespace
    /\ \E j \in 1..Len(s) :
          /\ s[j] = NL
          /\ \A k \in (IF i < j THEN i ELSE j)..(IF i < j THEN j ELSE i) :
                s[k] \in Whitespace

\* one space for each such run, at the place of its first character
Collapsed(s) ==
    Join([i \in 1..Len(s) |->
            IF ~InBreakRun(s, i) THEN <<s[i]>>
            ELSE IF i = 1 \/ s[i - 1] \notin Whitespace THEN <<SP>>
            ELSE <<>>])

\* the parts of s from position from on, between the occurrences of sep taken
\* from the left
RECURSIVE PartsFrom(_, _, _)
PartsFrom(s, sep, from) ==
    LET occ == {i \in from..(Len(s) - Len(sep) + 1) :
                    SubSeq(s, i, i + Len(sep) - 1) = sep}
    IN  IF occ = {} THEN <<SubSeq(s, from, Len(s))>>
        ELSE LET m == CHOOSE x \in occ : \A y \in occ : x <= y
             IN  <<SubSeq(s, from, m - 1)>> \o PartsFrom(s, sep, m + Len(sep))

\* s from its first to its last character that is not whitespace
Trimmed(s) ==
    LET solid == {i \in 1..Len(s) : s[i] \notin Whitespace}
    IN  IF solid = {} THEN <<>>
        ELSE SubSeq(s, CHOOSE x \in solid : \A y \in solid : x <= y,
                       CHOOSE x \in solid : \A y \in solid : x >= y)

ExampleAuthors ==
    <<<<"J", "a", "n", "e", SP, "D", "o", "e">>,
      <<"J", "o", "h", "n", SP, "Q", ".", SP, "S", "m", "i", "t", "h">>>>

C8_AuthorsAreTrimmedParts ==
    Noted =>
        LET authors_str == Get(LastEntry, "author", <<>>)
            parts == PartsFrom(Collapsed(authors_str), AndSep, 1)
            names == LastNote.author_list
        IN  IF authors_str = <<>> THEN names = <<>>
            ELSE /\ names = [i \in 1..Len(parts) |-> Trimmed(parts[i])]
                 /\ \A i \in 1..Len(names) :
                        /\ ~HasChar(names[i], {NL})
                        /\ names[i] # <<>> =>
                              /\ names[i][1] \notin Whitespace
                              /\ names[i][Len(names[i])] \notin Whitespace
                 /\ authors_str = AuthorExample => names = ExampleAuthors

\* an author string with a line break has been split into several names
C8_Witness ==
    /\ Noted
    /\ HasChar(Get(LastEntry, "author", <<>>), {NL})
    /\ Len(LastNote.author_list) >= 2
    /\ \E i \in 1..Len(LastNote.author_list) : LastNote.author_list[i] # <<>>

(***************************************************************************)
(* Writes, for C10                                                         *)
(***************************************************************************)
\* record <<f1, e1>> comes before record <<f2, e2>> in processing order
Before(f1, e1, f2, e2) == f1 < f2 \/ (f1 = f2 /\ e1 < e2)

RecordsOf(f) == [e \in 1..Len(bibfiles[f].entries) |-> <<f, e>>]

\* the records of the parsed files, in processing order
AllRecords == Join([f \in 1..Len(bibfiles) |->
                      IF Parsed(f) THEN RecordsOf(f) ELSE <<>>])

DocumentOf(f, e) == NoteOf(bibfiles[f].entries[e], OutputDir).md_content
PathOf(f, e) == NoteOf(bibfiles[f].entries[e], OutputDir).output_path

(***************************************************************************)
(* C10 as claimed: documents are written in processing order, one write    *)
(* per record; records with the same file name overwrite each other with   *)
(* no error reported, and after the run the file holds exactly the         *)
(* document of the last such record in processing order.                   *)
(***************************************************************************)
C10_OneWritePerRecordLastRecordWins ==
    Done =>
        /\ [k \in 1..Len(writes) |-> <<writes[k].file, writes[k].entry>>] = AllRecords
        /\ \A k \in 1..Len(writes) : writes[k].outcome = "written"
        /\ \A k \in 1..Len(AllRecords) :
              LET f == AllRecords[k][1]
                  e == AllRecords[k][2]
              IN  (\A l \in (k + 1)..Len(AllRecords) :
                      PathOf(AllRecords[l][1], AllRecords[l][2]) # PathOf(f, e))
                  => /\ PathOf(f, e) \in DOMAIN outfs
                     /\ outfs[PathOf(f, e)] = Content(DocumentOf(f, e), TRUE)

(***************************************************************************)
(* C10 amended: write attempts happen in processing order, at most one per *)
(* record and one for every record whose processing reaches the write; a   *)
(* write to a file name that is already there replaces the file, nothing   *)
(* detects the collision; each file whose last write attempt succeeded     *)
(* holds exactly the document of that attempt, which is the one of the     *)
(* last record in processing order written under that name.                *)
(***************************************************************************)
C10_WritesInOrderLastWriteWins ==
    /\ \A k \in 1..Len(writes), l \in 1..Len(writes) :
          k < l => Before(writes[k].file, writes[k].entry,
                          writes[l].file, writes[l].entry)
    /\ \A k \in 1..Len(calls) :
          LET f == calls[k][1]
              e == calls[k][2]
          IN  OpenRaisesValueError(PathOf(f, e))
                  \/ \E l \in 1..Len(writes) :
                        /\ writes[l].file = f
                        /\ writes[l].entry = e
                        /\ writes[l].path = PathOf(f, e)
    /\ \A k \in 1..Len(writes) :
          (/\ writes[k].outcome = "written"
           /\ \A l \in (k + 1)..Len(writes) : writes[l].path # writes[k].path)
          => /\ writes[k].path \in DOMAIN outfs
             /\ outfs[writes[k].path]
                  = Content(DocumentOf(writes[k].file, writes[k].entry), TRUE)
    /\ \A p \in DOMAIN outfs :
          \E k \in 1..Len(writes) :
              writes[k].path = p /\ writes[k].outcome # "open failed"

\* the run is over, two records with different documents were written under
\* one file name, and the file holds the document of the later one
C10_Witness ==
    /\ Done
    /\ \E k \in 1..Len(writes), l \in 1..Len(writes) :
          /\ k < l
          /\ writes[k].path = writes[l].path
          /\ writes[k].outcome = "written"
          /\ writes[l].outcome = "written"
          /\ DocumentOf(writes[k].file, writes[k].entry)
               # DocumentOf(writes[l].file, writes[l].entry)
          /\ outfs[writes[l].path].md = DocumentOf(writes[l].file, writes[l].entry)

=============================================================================
